---- MODULE Spec2Model ----
(***************************************************************************)
(* Model of the Monolith plugin: the 'archive-link' command, the spawned   *)
(* archiving process with its close handler, and the settings tab.         *)
(*                                                                         *)
(* Text is modelled as a sequence of text units ("atoms"); a string of the *)
(* program is the concatenation of its atoms, "" is << >>.  An editor      *)
(* position is an offset into the (single-line) document.                  *)
(***************************************************************************)
EXTENDS Integers, Sequences, FiniteSets, TLC

VARIABLES
    doc,        \* view.editor: the document text
    sel,        \* view.editor: the selection, [from, to] offsets
    activeView, \* workspace.getActiveViewOfType(MarkdownView) is non-null
    settings,   \* MonolithPlugin.settings: [cliOpts, outputPath]
    saved,      \* the data last handed to saveData
    outErr,     \* containerEl holds the '.outErr' element
    pend,       \* output-folder onChange calls: their value and position
    procs,      \* spawned 'monolith' processes and their close closures
    notices,    \* the Notice texts shown so far
    lastCall,   \* argument and return value of the last checkCallback call
    nEdits      \* number of user edits so far

vars == <<doc, sel, activeView, settings, saved, outErr, pend, procs,
          notices, lastCall, nEdits>>

----------------------------------------------------------------------------
(* Bounds of the model *)

MaxProcs == 2      \* processes spawned in one run
MaxEdits == 1      \* user edits in one run
MaxChanges == 2    \* values typed into the output-folder field in one run

----------------------------------------------------------------------------
(* Text helpers *)

Min(a, b) == IF a < b THEN a ELSE b
Max(a, b) == IF a > b THEN a ELSE b

SP == " "
SLASH == "/"
HTTP == "http://"
LINKHEAD == "[(archived)](file://"
DOTHTML == ".html"
RPAREN == ")"
PCT20 == "%20"

\* atoms that are runs of letters
Letters == {"h", "a", "x", "home", "d", "f", "nope"}

Slice(t, from, to) == SubSeq(t, from + 1, to)

RECURSIVE StripLeft(_)
StripLeft(t) == IF t # << >> /\ Head(t) = SP THEN StripLeft(Tail(t)) ELSE t

RECURSIVE StripRight(_)
StripRight(t) ==
    IF t # << >> /\ t[Len(t)] = SP THEN StripRight(SubSeq(t, 1, Len(t) - 1)) ELSE t

\* the URL parser removes leading and trailing spaces from its input
Strip(t) == StripRight(StripLeft(t))

\* index of the first atom of t at or after i that is in S, Len(t) + 1 if none
RECURSIVE FirstIn(_, _, _)
FirstIn(t, i, S) ==
    IF i > Len(t) THEN Len(t) + 1
    ELSE IF t[i] \in S THEN i ELSE FirstIn(t, i + 1, S)

\* String.prototype.split(sep) for a one-atom separator: the list of pieces
RECURSIVE Split(_, _)
Split(t, sep) ==
    LET k == FirstIn(t, 1, {sep})
    IN  IF k > Len(t) THEN <<t>>
        ELSE <<SubSeq(t, 1, k - 1)>> \o Split(SubSeq(t, k + 1, Len(t)), sep)

\* the path percent-encode set, as far as the alphabet goes: a space
PercentEncode(t) == [i \in 1..Len(t) |-> IF t[i] = SP THEN PCT20 ELSE t[i]]

----------------------------------------------------------------------------
(* new URL(text), for the texts of the URL grammar below *)

\* atoms a path may hold such that every '/' of the path is a SLASH atom
PathAtoms == Letters \cup {SLASH, SP, PCT20, RPAREN, DOTHTML}

\* the end of the host: the first atom after "http://" that is no letter run
HostEnd(s) == FirstIn(s, 2, {HTTP, LINKHEAD, SLASH, SP, PCT20, RPAREN, DOTHTML})

\* "http://" host [ "/" path ]
WellFormed(s) ==
    IF Len(s) < 2 THEN FALSE
    ELSE /\ s[1] = HTTP
         /\ s[2] \in Letters
         /\ \A i \in HostEnd(s)..Len(s) :
                IF i = HostEnd(s) THEN s[i] = SLASH ELSE s[i] \in PathAtoms

\* texts the parser rejects: empty; "http://" alone; a first character that
\* is no letter; a letter run that no ':' follows; a space in the host
Rejected(s) ==
    IF s = << >> THEN TRUE
    ELSE IF s[1] = HTTP
    THEN IF HostEnd(s) > Len(s) THEN Len(s) = 1 ELSE s[HostEnd(s)] = SP
    ELSE IF s[1] \in Letters
    \* DOTHTML is made of scheme characters, like a letter run
    THEN LET j == FirstIn(s, 1, {HTTP, LINKHEAD, SLASH, SP, PCT20, RPAREN})
         IN  IF j > Len(s) THEN TRUE ELSE s[j] # HTTP
    ELSE TRUE

\* the texts for which ParseURL below is the parser's answer
InGrammar(t) == IF WellFormed(Strip(t)) THEN TRUE ELSE Rejected(Strip(t))

\* url.pathname: "/" for an empty path, spaces percent-encoded
Pathname(s) ==
    LET path == SubSeq(s, HostEnd(s), Len(s))
    IN  IF path = << >> THEN <<SLASH>> ELSE PercentEncode(path)

\* new URL(t): ok = FALSE when the constructor throws
ParseURL(t) ==
    LET s == Strip(t)
    IN  IF WellFormed(s)
        THEN [ok |-> TRUE,
              pathname |-> Pathname(s),
              \* url.toString(): the serialised URL
              href |-> SubSeq(s, 1, HostEnd(s) - 1) \o Pathname(s)]
        ELSE [ok |-> FALSE, pathname |-> << >>, href |-> << >>]

----------------------------------------------------------------------------
(* archiveLink: the pure part *)

\* path.pop() || path.pop(), for path = url.pathname.split('/')
PopOrPop(path) ==
    IF path[Len(path)] # << >> THEN path[Len(path)]
    ELSE IF Len(path) >= 2 THEN path[Len(path) - 1]
    ELSE <<"undefined">>

\* `${path.pop() || path.pop()}.html`
OutputFile(pathname) == PopOrPop(Split(pathname, SLASH)) \o <<DOTHTML>>

\* [`-o${outputFile}`, url.toString()]
BaseArgs(outputFile, href) == << <<"-o">> \o outputFile, href >>

\* the argument list without the test of the first flag
BuildArgsUntested(cliOpts, outputFile, href) ==
    cliOpts \o BaseArgs(outputFile, href)

\* (cliOpts[0] !== '') ? [...cliOpts, ...baseArgs] : baseArgs
BuildArgs(cliOpts, outputFile, href) ==
    IF (IF cliOpts = << >> THEN TRUE ELSE cliOpts[1] # << >>)
    THEN cliOpts \o BaseArgs(outputFile, href)
    ELSE BaseArgs(outputFile, href)

\* `[(archived)](file://${outputPath}/${outputFile})`
LinkString(outputPath, outputFile) ==
    <<LINKHEAD>> \o outputPath \o <<SLASH>> \o outputFile \o <<RPAREN>>

\* `${url.toString()} ${linkString}`
Replacement(href, outputPath, outputFile) ==
    href \o <<SP>> \o LinkString(outputPath, outputFile)

----------------------------------------------------------------------------
(* The environment: the file system, the texts a user types *)

HOME == <<SLASH, "home">>
DIRD == <<SLASH, "d">>
FILEF == <<SLASH, "f">>
NOPE == <<SLASH, "nope">>

\* values typed into the output-folder field
OutputTexts == {HOME, DIRD, FILEF, NOPE}

\* fs stat(value): "enoent" when it rejects, else what stats.isDirectory() tells
Stat(value) ==
    IF value \in {HOME, DIRD} THEN "dir"
    ELSE IF value = FILEF THEN "file"
    ELSE "enoent"

\* values typed into the flags field
FlagTexts ==
    { << >>,
      <<SP, "-j">>,
      <<"-j", SP>>,
      <<"-j", SP, SP, "-I">> }

\* exit codes of the archiving process
ExitCodes == {0, 1}

\* documents open in the editor at start
InitDocs == { <<HTTP, "h", SP, HTTP, "h", SLASH, "a">> }

\* documents that are one URL, of every path shape
UrlDocs ==
    { <<HTTP, "h">>,
      <<HTTP, "h", SLASH>>,
      <<HTTP, "h", SLASH, "a">>,
      <<HTTP, "h", SLASH, "a", SLASH>>,
      <<HTTP, "h", SLASH, "a", SLASH, "x">>,
      <<HTTP, "h", SLASH, "a", SLASH, SLASH>>,
      <<SP, HTTP, "h", SLASH, "a", SP, "x", SLASH>> }

DEFAULT_SETTINGS ==
    [cliOpts |-> << <<"--no-js">>, <<"--isolate">> >>, outputPath |-> HOME]

\* tick changes with every call
NoCall == [tick |-> FALSE, checking |-> FALSE, ret |-> "none"]

\* the state once onload() has run, with no stored settings
Init ==
    /\ doc \in InitDocs
    /\ sel = [from |-> 0, to |-> 0]
    /\ activeView = TRUE
    /\ settings = DEFAULT_SETTINGS
    /\ saved = DEFAULT_SETTINGS
    /\ outErr = FALSE
    /\ pend = << >>
    /\ procs = << >>
    /\ notices = << >>
    /\ lastCall = NoCall
    /\ nEdits = 0

----------------------------------------------------------------------------
(* The editor *)

\* an EditorPosition clipped to the document
Clip(d, pos) == Max(0, Min(pos, Len(d)))

\* editor.setSelection(anchor, head) then editor.replaceSelection(text):
\* the text between the two positions is replaced
ReplaceRange(d, anchor, head, text) ==
    LET f == Min(Clip(d, anchor), Clip(d, head))
        t == Max(Clip(d, anchor), Clip(d, head))
    IN  SubSeq(d, 1, f) \o text \o SubSeq(d, t + 1, Len(d))

\* the cursor after replaceSelection: behind the inserted text
CursorAfter(d, anchor, head, text) ==
    LET f == Min(Clip(d, anchor), Clip(d, head))
    IN  [from |-> f + Len(text), to |-> f + Len(text)]

\* the user selects a range
UserSelect(f, t) ==
    /\ sel' = [from |-> f, to |-> t]
    /\ UNCHANGED <<doc, activeView, settings, saved, outErr, pend, procs,
                   notices, lastCall, nEdits>>

\* the user types one character at a position
UserInsert(pos, c) ==
    /\ nEdits < MaxEdits
    /\ doc' = SubSeq(doc, 1, pos) \o <<c>> \o SubSeq(doc, pos + 1, Len(doc))
    /\ sel' = [from |-> pos + 1, to |-> pos + 1]
    /\ nEdits' = nEdits + 1
    /\ UNCHANGED <<activeView, settings, saved, outErr, pend, procs,
                   notices, lastCall>>

\* the user deletes the character behind a position
UserDelete(pos) ==
    /\ nEdits < MaxEdits
    /\ doc' = SubSeq(doc, 1, pos) \o SubSeq(doc, pos + 2, Len(doc))
    /\ sel' = [from |-> pos, to |-> pos]
    /\ nEdits' = nEdits + 1
    /\ UNCHANGED <<activeView, settings, saved, outErr, pend, procs,
                   notices, lastCall>>

\* the markdown view loses or gains focus
ToggleView ==
    /\ activeView' = ~activeView
    /\ UNCHANGED <<doc, sel, settings, saved, outErr, pend, procs,
                   notices, lastCall, nEdits>>

----------------------------------------------------------------------------
(* The 'archive-link' command *)

\* the closure archiveLink creates, and the process it spawns
NewProc(url, range) ==
    LET outputFile == OutputFile(url.pathname)
    IN  [href |-> url.href,
         outputFile |-> outputFile,
         args |-> BuildArgs(settings.cliOpts, outputFile, url.href),
         cwd |-> settings.outputPath,
         range |-> range,
         state |-> "running"]

\* a process that has closed with an exit code; its closure is gone
ClosedProc(code) == [state |-> "closed", code |-> code]

\* archiveLink reached without the test of `checking`
CallsArchiveLinkUnchecked(checking, view, url) == view /\ url.ok

\* whether checkCallback reaches this.archiveLink(view, url, range)
CallsArchiveLink(checking, view, url) == view /\ url.ok /\ ~checking

\* what checkCallback returns
ReturnValue(view, url) ==
    IF ~view THEN "true"
    ELSE IF url.ok THEN "true"
    ELSE "undefined"

checkCallback(checking) ==
    LET text == IF activeView THEN Slice(doc, sel.from, sel.to) ELSE << >>
        url == ParseURL(text)
    IN  /\ InGrammar(text)
        /\ lastCall' = [tick |-> ~lastCall.tick, checking |-> checking,
                        ret |-> ReturnValue(activeView, url)]
        /\ IF CallsArchiveLink(checking, activeView, url)
           THEN /\ Len(procs) < MaxProcs
                /\ procs' = Append(procs, NewProc(url, sel))
           ELSE UNCHANGED procs
        /\ UNCHANGED <<doc, sel, activeView, settings, saved, outErr, pend,
                       notices, nEdits>>

\* the close handler with its else branch lost: both notices on exit code 0
OnCloseNoElse(p, code) ==
    /\ procs[p].state = "running"
    /\ procs' = [procs EXCEPT ![p] = ClosedProc(code)]
    /\ IF code = 0
       THEN LET text == Replacement(procs[p].href, settings.outputPath,
                                    procs[p].outputFile)
            IN  /\ doc' = ReplaceRange(doc, procs[p].range.to,
                                       procs[p].range.from, text)
                /\ sel' = CursorAfter(doc, procs[p].range.to,
                                      procs[p].range.from, text)
                /\ notices' = notices \o <<"Link archived!",
                                           "Archiving failed, check console.">>
       ELSE /\ notices' = Append(notices, "Archiving failed, check console.")
            /\ UNCHANGED <<doc, sel>>
    /\ UNCHANGED <<activeView, settings, saved, outErr, pend, lastCall,
                   nEdits>>

\* the close handler testing `code` for truth instead of `code === 0`
OnCloseTruthy(p, code) ==
    /\ procs[p].state = "running"
    /\ procs' = [procs EXCEPT ![p] = ClosedProc(code)]
    /\ IF code # 0
       THEN LET text == Replacement(procs[p].href, settings.outputPath,
                                    procs[p].outputFile)
            IN  /\ doc' = ReplaceRange(doc, procs[p].range.to,
                                       procs[p].range.from, text)
                /\ sel' = CursorAfter(doc, procs[p].range.to,
                                      procs[p].range.from, text)
                /\ notices' = Append(notices, "Link archived!")
       ELSE /\ notices' = Append(notices, "Archiving failed, check console.")
            /\ UNCHANGED <<doc, sel>>
    /\ UNCHANGED <<activeView, settings, saved, outErr, pend, lastCall,
                   nEdits>>

\* monolith.on('close', code => ...)
OnClose(p, code) ==
    /\ procs[p].state = "running"
    /\ procs' = [procs EXCEPT ![p] = ClosedProc(code)]
    /\ IF code = 0
       THEN LET text == Replacement(procs[p].href, settings.outputPath,
                                    procs[p].outputFile)
            IN  /\ doc' = ReplaceRange(doc, procs[p].range.to,
                                       procs[p].range.from, text)
                /\ sel' = CursorAfter(doc, procs[p].range.to,
                                      procs[p].range.from, text)
                /\ notices' = Append(notices, "Link archived!")
       ELSE /\ notices' = Append(notices, "Archiving failed, check console.")
            /\ UNCHANGED <<doc, sel>>
    /\ UNCHANGED <<activeView, settings, saved, outErr, pend, lastCall,
                   nEdits>>

----------------------------------------------------------------------------
(* The settings tab *)

\* display(): containerEl.empty() and the fields rebuilt
Display ==
    /\ outErr' = FALSE
    /\ UNCHANGED <<doc, sel, activeView, settings, saved, pend, procs,
                   notices, lastCall, nEdits>>

\* the flags field's onChange
FlagsOnChange(value) ==
    /\ settings' = [settings EXCEPT !.cliOpts = Split(value, SP)]
    /\ saved' = settings'
    /\ UNCHANGED <<doc, sel, activeView, outErr, pend, procs, notices,
                   lastCall, nEdits>>

\* the output-folder field's onChange, up to its await of stat(value)
OutputOnChange(value) ==
    /\ Len(pend) < MaxChanges
    /\ pend' = Append(pend, [value |-> value, pc |-> "stat"])
    /\ UNCHANGED <<doc, sel, activeView, settings, saved, outErr, procs,
                   notices, lastCall, nEdits>>

\* stat(value) settles: the handler runs up to its next await or its end
StatSettles(i) ==
    /\ pend[i].pc = "stat"
    /\ LET value == pend[i].value
       IN  IF Stat(value) = "enoent"
           THEN /\ outErr' = TRUE
                /\ pend' = [pend EXCEPT ![i].pc = "done"]
                /\ UNCHANGED <<settings, saved>>
           ELSE IF Stat(value) = "dir"
           THEN /\ settings' = [settings EXCEPT !.outputPath = value]
                /\ saved' = settings'
                /\ pend' = [pend EXCEPT ![i].pc = "save"]
                /\ UNCHANGED outErr
           ELSE /\ pend' = [pend EXCEPT ![i].pc = "done"]
                /\ UNCHANGED <<settings, saved, outErr>>
    /\ UNCHANGED <<doc, sel, activeView, procs, notices, lastCall, nEdits>>

\* saveSettings() settles: the '.outErr' element, if any, is removed
SaveSettles(i) ==
    /\ pend[i].pc = "save"
    /\ outErr' = FALSE
    /\ pend' = [pend EXCEPT ![i].pc = "done"]
    /\ UNCHANGED <<doc, sel, activeView, settings, saved, procs, notices,
                   lastCall, nEdits>>

----------------------------------------------------------------------------
(* Specifications *)

\* the ranges that hold a URL, from its "http://" up to the next space or the
\* document's end
WholeUrlRanges ==
    LET starts == {f \in 0..(Len(doc) - 1) : doc[f + 1] = HTTP}
        ends == {t \in 1..Len(doc) :
                    IF t = Len(doc) THEN TRUE ELSE doc[t + 1] = SP}
    IN  {r \in starts \X ends :
            IF r[1] < r[2] THEN ParseURL(Slice(doc, r[1], r[2])).ok ELSE FALSE}

\* Archiving: URLs are selected and archived while the user types at the
\* document's start, deletes at its end and changes the output folder once
Next ==
    \/ \E r \in WholeUrlRanges : UserSelect(r[1], r[2])
    \/ UserInsert(0, "x")
    \/ Len(doc) > 0 /\ UserDelete(Len(doc) - 1)
    \/ checkCallback(FALSE)
    \/ \E p \in 1..Len(procs) : \E code \in ExitCodes : OnClose(p, code)
    \/ pend = << >> /\ OutputOnChange(DIRD)
    \/ \E i \in 1..Len(pend) : StatSettles(i)
    \/ \E i \in 1..Len(pend) : SaveSettles(i)

Spec == Init /\ [][Next]_vars

\* The command palette: the command is checked and executed on any selection,
\* with and without an active markdown view
NextCall ==
    \/ \E f \in 0..Len(doc) : \E t \in f..Len(doc) : UserSelect(f, t)
    \/ ToggleView
    \/ \E checking \in BOOLEAN : checkCallback(checking)

SpecCall == Init /\ [][NextCall]_vars

\* the state once onload() has run, with settings stored by an earlier run
InitArgs ==
    /\ doc \in UrlDocs
    /\ sel = [from |-> 0, to |-> Len(doc)]
    /\ activeView = TRUE
    /\ settings \in [cliOpts : {DEFAULT_SETTINGS.cliOpts},
                     outputPath : {HOME, DIRD}]
    /\ saved = settings
    /\ outErr = FALSE
    /\ pend = << >>
    /\ procs = << >>
    /\ notices = << >>
    /\ lastCall = NoCall
    /\ nEdits = 0

\* Invocation: the binary is run on URLs of every shape under every flags text
NextArgs ==
    \/ \E value \in FlagTexts : FlagsOnChange(value)
    \/ checkCallback(FALSE)

SpecArgs == InitArgs /\ [][NextArgs]_vars

\* The settings tab: values are typed into the output-folder field and their
\* validations settle in any order
NextTab ==
    \/ Display
    \/ \E value \in OutputTexts : OutputOnChange(value)
    \/ \E i \in 1..Len(pend) : StatSettles(i)
    \/ \E i \in 1..Len(pend) : SaveSettles(i)

SpecTab == Init /\ [][NextTab]_vars

----------------------------------------------------------------------------
(* Properties *)

\* this step is the close handler of process p, run with this exit code
Closes(p, code) ==
    /\ procs[p].state = "running"
    /\ procs'[p].state = "closed"
    /\ procs'[p].code = code

\* the captured range of process p as it falls into the current document
RangeFrom(p) == Min(Min(procs[p].range.from, procs[p].range.to), Len(doc))
RangeTo(p) == Min(Max(procs[p].range.from, procs[p].range.to), Len(doc))

\* the URL string, one space and an archived-link string for process p that
\* names the directory dir
Inserted(p, dir) ==
    procs[p].href \o <<SP, LINKHEAD>> \o dir \o <<SLASH>>
        \o procs[p].outputFile \o <<RPAREN>>

\* C1: when a process closes with exit code 0, the captured range is replaced
\* by the URL string, one space and the archived-link string, and exactly one
\* notice is shown, 'Link archived!'
C1_CloseZeroEditsAndNotifies ==
    [][\A p \in 1..Len(procs) :
          Closes(p, 0) =>
            /\ \E dir \in OutputTexts :
                 doc' = SubSeq(doc, 1, RangeFrom(p)) \o Inserted(p, dir)
                          \o SubSeq(doc, RangeTo(p) + 1, Len(doc))
            /\ Len(notices') = Len(notices) + 1
            /\ notices'[Len(notices')] = "Link archived!"
            /\ SubSeq(notices', 1, Len(notices)) = notices]_vars

\* a process has closed with exit code 0 and its link is in the document
C1_Witness ==
    /\ \E p \in 1..Len(procs) :
         IF procs[p].state = "closed" THEN procs[p].code = 0 ELSE FALSE
    /\ \E i \in 1..Len(notices) : notices[i] = "Link archived!"
    /\ \E j \in 1..Len(doc) : doc[j] = LINKHEAD

\* C2: when a process closes with a nonzero exit code, exactly one notice is
\* shown, 'Archiving failed, check console.', and the close handler leaves the
\* document and the selection as they are
C2_CloseNonzeroOnlyNotifies ==
    [][\A p \in 1..Len(procs) : \A code \in ExitCodes \ {0} :
          Closes(p, code) =>
            /\ doc' = doc
            /\ sel' = sel
            /\ notices' = Append(notices, "Archiving failed, check console.")]_vars

\* a process has closed with a nonzero exit code and the failure notice shows
C2_Witness ==
    /\ \E p \in 1..Len(procs) :
         IF procs[p].state = "closed" THEN procs[p].code # 0 ELSE FALSE
    /\ \E i \in 1..Len(notices) :
         notices[i] = "Archiving failed, check console."
\* this step is a call of checkCallback
Called == lastCall'.tick # lastCall.tick

\* the current selection parses as a URL
SelectionIsUrl == ParseURL(Slice(doc, sel.from, sel.to)).ok

\* C3: a call of checkCallback with checking = false, an active markdown view
\* and a selection that parses as a URL spawns exactly one process; any other
\* call spawns none, and nothing else spawns a process
C3_OneSpawnPerExecutedCommand ==
    [][/\ Called =>
            IF ~lastCall'.checking /\ activeView /\ SelectionIsUrl
            THEN /\ Len(procs') = Len(procs) + 1
                 /\ SubSeq(procs', 1, Len(procs)) = procs
                 /\ procs'[Len(procs')].state = "running"
            ELSE procs' = procs
       /\ ~Called => procs' = procs]_vars

\* two commands were executed on URL selections and two processes run
C3_Witness ==
    /\ Len(procs) = 2
    /\ lastCall.ret = "true"
    /\ ~lastCall.checking

\* C4: the link inserted on exit code 0 names the working directory the
\* process was spawned in and the file name given to it with -o
C4_LinkNamesSpawnDirectory ==
    [][\A p \in 1..Len(procs) :
          Closes(p, 0) =>
            /\ doc' = SubSeq(doc, 1, RangeFrom(p)) \o Inserted(p, procs[p].cwd)
                        \o SubSeq(doc, RangeTo(p) + 1, Len(doc))
            /\ \E i \in 1..Len(procs[p].args) :
                 procs[p].args[i] = <<"-o">> \o procs[p].outputFile]_vars

\* C5: when a process closes with exit code 0 the captured range still holds
\* the URL that was selected, whatever was edited or archived meanwhile, so
\* that the URL string, one space and the archived link take the URL's place
\* and the text around the URL stays as it is
C5_LinkReplacesSelectedUrl ==
    [][\A p \in 1..Len(procs) :
          Closes(p, 0) =>
            LET f == RangeFrom(p)
                t == RangeTo(p)
                new == Inserted(p, settings.outputPath)
            IN  /\ ParseURL(Slice(doc, f, t)).ok
                /\ ParseURL(Slice(doc, f, t)).href = procs[p].href
                /\ Slice(doc', f, f + Len(new)) = new
                /\ SubSeq(doc', 1, f) = SubSeq(doc, 1, f)
                /\ SubSeq(doc', f + Len(new) + 1, Len(doc'))
                     = SubSeq(doc, t + 1, Len(doc))]_vars

\* C6: the argument list of a spawned process is the configured flags in
\* their order, then '-o<outputFile>', then the URL string; only the last two
\* when the first configured flag is the empty string; and its working
\* directory is the configured output path
C6_ArgsAreFlagsOutputUrl ==
    [][Len(procs') = Len(procs) + 1 =>
          LET pr == procs'[Len(procs')]
              flags == IF settings.cliOpts # << >> /\ Head(settings.cliOpts) = << >>
                       THEN << >> ELSE settings.cliOpts
          IN  /\ pr.args = flags \o << <<"-o">> \o pr.outputFile >> \o <<pr.href>>
              /\ pr.href = ParseURL(Slice(doc, sel.from, sel.to)).href
              /\ pr.cwd = settings.outputPath]_vars

\* one process was spawned with the flags dropped, one with flags passed
C6_Witness ==
    /\ \E p \in 1..Len(procs) : Len(procs[p].args) = 2
    /\ \E p \in 1..Len(procs) : Len(procs[p].args) > 2

\* C7: checkCallback returns true exactly when there is an active markdown
\* view whose selection parses as a URL
C7_TrueIffViewAndUrl ==
    [][Called => (lastCall'.ret = "true" <=> (activeView /\ SelectionIsUrl))]_vars

\* C8: the output file is '<segment>.html' for the last segment of the URL's
\* path, or the one before it when the path ends in '/', and the segment is
\* never empty
C8_OutputFileHasSegment ==
    \A p \in 1..Len(procs) :
        LET file == procs[p].outputFile
            href == procs[p].href
            seg == SubSeq(file, 1, Len(file) - 1)
            n == Len(href)
            k == Len(file) - 1
        IN  /\ file[Len(file)] = DOTHTML
            /\ seg # << >>
            /\ \A i \in 1..k : seg[i] # SLASH
            /\ IF href[n] = SLASH
               THEN SubSeq(href, n - k, n - 1) = seg /\ href[n - k - 1] = SLASH
               ELSE SubSeq(href, n - k + 1, n) = seg /\ href[n - k] = SLASH

\* this step settles the stat of the i-th value typed into the output field
Validated(i) == pend[i].pc = "stat" /\ pend'[i].pc # "stat"

\* C9: a value that is no existing directory leaves settings.outputPath as it
\* is, is not saved and shows the 'Invalid path will not be saved.' message;
\* an existing directory is assigned and saved, and the message is removed
\* once it is accepted
C9_InvalidPathRejectedWithMessage ==
    [][\A i \in 1..Len(pend) :
          /\ Validated(i) =>
               IF Stat(pend[i].value) = "dir"
               THEN /\ settings'.outputPath = pend[i].value
                    /\ saved' = settings'
               ELSE /\ settings' = settings
                    /\ saved' = saved
                    /\ outErr'
          /\ (pend[i].pc = "save" /\ pend'[i].pc = "done") => ~outErr']_vars

\* the most recently typed value that is an existing directory, or the
\* output path at start when none is
RECURSIVE LastDirectory(_, _)
LastDirectory(typed, start) ==
    IF typed = << >> THEN start
    ELSE IF Stat(typed[Len(typed)].value) = "dir" THEN typed[Len(typed)].value
    ELSE LastDirectory(SubSeq(typed, 1, Len(typed) - 1), start)

\* C10: once every validation has finished, settings.outputPath is the most
\* recently typed value that is an existing directory
C10_LastTypedDirectoryWins ==
    (\A i \in 1..Len(pend) : pend[i].pc = "done") =>
        settings.outputPath = LastDirectory(pend, DEFAULT_SETTINGS.outputPath)

\* the non-empty tokens of a flags text: its maximal runs without a space
RECURSIVE Tokens(_)
Tokens(value) ==
    LET t == StripLeft(value)
        k == FirstIn(t, 1, {SP})
    IN  IF t = << >> THEN << >>
        ELSE <<SubSeq(t, 1, k - 1)>> \o Tokens(SubSeq(t, k, Len(t)))

\* C11: for every flags text entered in the settings tab, the argument list
\* of a process spawned under it holds every non-empty token of the text and
\* no empty-string element
C11_NoEmptyArgNoFlagDropped ==
    [][Len(procs') = Len(procs) + 1 =>
          \A value \in FlagTexts :
             settings.cliOpts = Split(value, SP) =>
               LET args == procs'[Len(procs')].args
               IN  /\ \A i \in 1..Len(args) : args[i] # << >>
                   /\ \A j \in 1..Len(Tokens(value)) :
                        \E i \in 1..Len(args) : args[i] = Tokens(value)[j]]_vars

====
